---- MODULE Spec2Model ----
(***************************************************************************)
(* A model of s3_reader (src/src/s3_reader/s3_reader.py): the paginated    *)
(* listing loops, the per-key download with its optional local write, and  *)
(* the three batch operations that fan the units out over a               *)
(* ThreadPoolExecutor sharing one S3 client.                               *)
(*                                                                         *)
(* Strings that the code takes apart (keys, prefixes, paths) are sequences *)
(* of one-character strings, so that os.path.dirname and os.path.join are  *)
(* computed the way posixpath computes them.                               *)
(***************************************************************************)
EXTENDS Integers, Sequences, FiniteSets, TLC

(***************************************************************************)
(* Bounds of the model.                                                    *)
(***************************************************************************)
\* longest list of prefixes or keys a caller passes to a batch operation, and
\* most keys the prefixes passed to download_by_prefixes resolve to
MaxItems == 2
\* largest batch of the worker-pool model (PoolSpec)
MaxBatch == 18

(***************************************************************************)
(* Python values that may be None, or of more than one type, carry their   *)
(* type: None, a str (a sequence of characters), a list, a dict (a         *)
(* function from keys to values).                                          *)
(***************************************************************************)
None == [type |-> "NoneType"]
Str(s) == [type |-> "str", v |-> s]
List(s) == [type |-> "list", v |-> s]
Dict(f) == [type |-> "dict", v |-> f]
\* an argument the caller does not pass
Omitted == [type |-> "omitted"]

Min(a, b) == IF a <= b THEN a ELSE b

RECURSIVE Concat(_)
\* the concatenation of a sequence of sequences
Concat(ss) == IF ss = <<>> THEN <<>> ELSE Head(ss) \o Concat(Tail(ss))

Range(s) == {s[i] : i \in DOMAIN s}

(***************************************************************************)
(* os.path (posixpath) on character sequences.                             *)
(***************************************************************************)
Slash == "/"

\* str.rfind('/') + 1: the index just past the last slash, 0 when none
RFindSlash(p) ==
    IF \E i \in DOMAIN p : p[i] = Slash
    THEN CHOOSE i \in DOMAIN p : p[i] = Slash /\ \A j \in DOMAIN p : p[j] = Slash => j <= i
    ELSE 0

AllSlashes(s) == \A i \in DOMAIN s : s[i] = Slash

RECURSIVE RStripSlash(_)
\* str.rstrip('/')
RStripSlash(s) ==
    IF s /= <<>> /\ s[Len(s)] = Slash THEN RStripSlash(SubSeq(s, 1, Len(s) - 1)) ELSE s

\* os.path.dirname
dirname(p) ==
    LET head == SubSeq(p, 1, RFindSlash(p))
    IN  IF head /= <<>> /\ ~AllSlashes(head) THEN RStripSlash(head) ELSE head

\* os.path.join(a, b): an absolute b discards a
join(a, b) ==
    IF b /= <<>> /\ b[1] = Slash THEN b
    ELSE IF a = <<>> \/ a[Len(a)] = Slash THEN a \o b
    ELSE a \o <<Slash>> \o b

(***************************************************************************)
(* The local filesystem: the directories and the files that exist, each    *)
(* named by the place a path string resolves to.                           *)
(***************************************************************************)
RECURSIVE Split(_, _)
\* the components of a path: the maximal slash-free runs, empty ones dropped
Split(p, cur) ==
    IF p = <<>> THEN (IF cur = <<>> THEN <<>> ELSE <<cur>>)
    ELSE IF Head(p) = Slash
         THEN (IF cur = <<>> THEN <<>> ELSE <<cur>>) \o Split(Tail(p), <<>>)
         ELSE Split(Tail(p), Append(cur, Head(p)))

\* the place a path names: relative to the root or to the working directory
Resolve(p) == [abs |-> p /= <<>> /\ p[1] = Slash, comps |-> Split(p, <<>>)]

Parent(loc) == [loc EXCEPT !.comps = SubSeq(loc.comps, 1, Len(loc.comps) - 1)]

\* loc and every directory above it, the root or working directory included
Ancestors(loc) == {[loc EXCEPT !.comps = SubSeq(loc.comps, 1, n)] : n \in 0..Len(loc.comps)}

IsFile(fs, loc) == loc \in DOMAIN fs.files

\* the filesystem before any call: the root and the working directory, no file
InitFs == [dirs  |-> {Resolve(<<Slash>>), Resolve(<<>>)},
           files |-> <<>>]

\* os.makedirs(name, exist_ok=True) cannot succeed: the empty name, or a file in the way
MakedirsFails(fs, name) ==
    name = <<>> \/ \E a \in Ancestors(Resolve(name)) : IsFile(fs, a)

\* the filesystem after a successful os.makedirs(name, exist_ok=True)
Makedirs(fs, name) == [fs EXCEPT !.dirs = fs.dirs \cup Ancestors(Resolve(name))]

\* open(path, 'wb') cannot succeed: it names a directory, or its parent is no directory
OpenFails(fs, path) ==
    \/ path = <<>>
    \/ path[Len(path)] = Slash
    \/ Resolve(path) \in fs.dirs
    \/ Resolve(path).comps = <<>>
    \/ Parent(Resolve(path)) \notin fs.dirs

\* a function with one more (or one overwritten) entry
Put(f, k, v) == [x \in DOMAIN f \cup {k} |-> IF x = k THEN v ELSE f[x]]

\* the empty bytes object
NoBytes == "b''"

\* the filesystem after open(path, 'wb'): the file exists and is empty
OpenWb(fs, path) == [fs EXCEPT !.files = Put(fs.files, Resolve(path), NoBytes)]

\* the filesystem after f.write(data) and the close of the with block
WriteAll(fs, path, data) == [fs EXCEPT !.files = Put(fs.files, Resolve(path), data)]

(***************************************************************************)
(* The bucket and the remote service (boto3's S3 client), which the code   *)
(* reaches through client.list_objects_v2 and client.download_fileobj.     *)
(***************************************************************************)
\* objects a page of a listing holds at most (1000 at the service)
PageSize == 1

K_c   == <<"/", "c">>
K_a1  == <<"a", "/", "1">>
K_ad2 == <<"a", "/", "d", "/", "2">>
K_b   == <<"b">>

\* the keys of the bucket, in the order the service lists them
Objects == <<K_c, K_a1, K_ad2, K_b>>

\* the bytes of each object: two JSON documents, two that are not JSON
Body(key) ==
    CASE key = K_a1  -> "[1]"
      [] key = K_ad2 -> "[2]"
      [] key = K_b   -> "raw"
      [] OTHER       -> "\\x00"

P_all == <<>>
P_a   == <<"a", "/">>
P_a1  == <<"a", "/", "1">>

\* the prefixes and keys callers pass
Prefixes == {P_all, P_a, P_a1}
DownloadKeys == {K_a1, K_b, K_c}
\* output_dir as the caller passes it: not at all, None, or a directory 'o'
OutputDirs == {Omitted, None, Str(<<"o">>)}
\* output_format ('dict', 'bytes', or the invalid 'xml') with output_dir, as a
\* caller passes them: output_dir is read under 'bytes' alone
Configs ==
    {<<"bytes", d>> : d \in OutputDirs}
    \cup {<<"dict", Omitted>>, <<"dict", Str(<<"o">>)>>, <<"xml", Omitted>>}

\* the default of the output_dir parameter (lines 145, 182, 216; the CLI's -d
\* has the same default, main.py line 19)
DefaultOutputDir == Str(<<>>)

\* the value of the output_dir parameter inside the function
OutputDir(c) == IF c.output_dir = Omitted THEN DefaultOutputDir ELSE c.output_dir

HasPrefix(k, p) == Len(p) <= Len(k) /\ SubSeq(k, 1, Len(p)) = p

\* the first index of the character c in s, 0 when it does not occur
FindChar(s, c) ==
    IF \E i \in DOMAIN s : s[i] = c
    THEN CHOOSE i \in DOMAIN s : s[i] = c /\ \A j \in DOMAIN s : s[j] = c => i <= j
    ELSE 0

\* what one object contributes to a listing: itself, or its rolled-up common prefix
Entry(k, prefix, delimiter) ==
    LET rest == SubSeq(k, Len(prefix) + 1, Len(k))
        j    == IF delimiter = None THEN 0 ELSE FindChar(rest, delimiter.v[1])
    IN  IF j = 0 THEN [kind |-> "Contents", name |-> k]
        ELSE [kind |-> "CommonPrefixes", name |-> SubSeq(k, 1, Len(prefix) + j)]

RECURSIVE Entries(_, _, _)
\* the entries of a listing of the keys ks, a common prefix listed once
Entries(ks, prefix, delimiter) ==
    IF ks = <<>> THEN <<>>
    ELSE LET rest == Entries(Tail(ks), prefix, delimiter)
             e    == Entry(Head(ks), prefix, delimiter)
         IN  IF ~HasPrefix(Head(ks), prefix) THEN rest
             ELSE IF rest /= <<>> /\ rest[1] = e THEN rest
             ELSE <<e>> \o rest

Listing(prefix, delimiter) == Entries(Objects, prefix, delimiter)

\* the continuation token that resumes a listing at entry n, and its reading
Token(n) == Str(<<"token", n>>)
TokenStart(tok) == IF tok = None THEN 1 ELSE tok.v[2]

Names(es, kind) ==
    LET hit(e) == e.kind = kind
        sel    == SelectSeq(es, hit)
    IN  [i \in DOMAIN sel |-> sel[i].name]

\* the response of list_objects_v2(Prefix, Delimiter?, ContinuationToken?)
list_objects_v2(prefix, delimiter, tok) ==
    LET all   == Listing(prefix, delimiter)
        start == TokenStart(tok)
        stop  == Min(start + PageSize - 1, Len(all))
        page  == SubSeq(all, start, stop)
    IN  [Contents              |-> Names(page, "Contents"),
         CommonPrefixes        |-> Names(page, "CommonPrefixes"),
         NextContinuationToken |-> IF stop < Len(all) THEN Token(stop + 1) ELSE None]

\* a listing that stops after its first page, whatever the response carries
TruthyNever(tok) == FALSE

\* the truth value Python gives a token in `while continuation_token := ...`
Truthy(tok) == tok /= None /\ tok.v /= <<>>

\* json.loads on the bodies of the bucket
JsonLoads(data) ==
    CASE data = "[1]" -> [ok |-> TRUE, value |-> <<1>>]
      [] data = "[2]" -> [ok |-> TRUE, value |-> <<2>>]
      [] OTHER        -> [ok |-> FALSE]

(***************************************************************************)
(* The state of one top-level call.                                        *)
(***************************************************************************)
VARIABLES
    pc,        \* where the calling thread is
    call,      \* the operation called and its arguments
    batch,     \* the batch function executing: its name
    items,     \* the prefixes or keys of the batch
    clients,   \* every client created so far; the batch's client is the last
    units,     \* one unit of work per item: a submitted call of func
    pool,      \* the ThreadPoolExecutor of the batch
    ac,        \* the as_completed iterator over the jobs, and the order in which
               \* the jobs' futures were set
    acc,       \* keys / sub_level_prefixes / data, as aggregated so far
    exc,       \* the exception propagating in the calling thread
    resolved,  \* download_by_prefixes' local keys (line 230)
    outcome,   \* what the top-level call returned or raised
    fs,        \* the local filesystem
    closedUse, \* whether a remote call was ever issued on a closed client
    pool_n,    \* worker-pool model: the batch size
    pool_st    \* worker-pool model: its counters

vars == <<pc, call, batch, items, clients, units, pool, ac, acc, exc, resolved,
          outcome, fs, closedUse, pool_n, pool_st>>

batchVars == <<batch, items, clients, units, pool, ac, acc, exc>>
poolModelVars == <<pool_n, pool_st>>

\* max_workers = 16 (lines 72, 127, 199)
max_workers == 16

\* a pool with one worker per item, however many
PoolSizeUncapped(n) == n

\* ThreadPoolExecutor(min(max_workers, len(items))): the pool's max_workers
PoolSize(n) == Min(max_workers, n)

\* ThreadPoolExecutor._adjust_thread_count, run by every submit: an idle worker
\* takes the job, else a thread is started unless max_workers are running
AdjustThreadCount(threads, idle, size) ==
    IF idle > 0 THEN [threads |-> threads, idle |-> idle - 1]
    ELSE IF threads < size THEN [threads |-> threads + 1, idle |-> idle]
    ELSE [threads |-> threads, idle |-> idle]

ListBatches == {"list_keys_by_prefixes", "list_prefixes_by_prefixes"}

\* the positions of a unit at which a worker thread is executing it
RunningPcs == {"list_first", "list_next", "fetch", "makedirs", "open", "write"}

Pending == [type |-> "pending"]
Raised(e) == [type |-> "raised", error |-> e]

NoOutcome == [kind |-> "none"]
Returns(v) == [kind |-> "returned", value |-> v]
Raises(e) == [kind |-> "raised", error |-> e]

\* one submitted call func(item), func being a partial over the batch's client
NewUnit(item, cid) ==
    [item |-> item, client |-> cid, pc |-> "new", token |-> None, local |-> <<>>,
     data |-> "", result |-> Pending, calls |-> <<>>, failed |-> "none"]

Running == {u \in DOMAIN units : units[u].pc \in RunningPcs}
Done == {u \in DOMAIN units : units[u].pc = "done"}

\* an executor left with shutdown(wait=False)
NoWait == TRUE

\* an executor whose exit on an exception drops the jobs that have not finished
DoneUnlessRaised == exc /= "none" \/ \A u \in DOMAIN units : units[u].pc = "done"

\* every submitted job has run: what executor.shutdown(wait=True) waits for at the
\* exit of the with block (lines 75, 130, 202)
AllDone == \A u \in DOMAIN units : units[u].pc = "done"

\* the sequences over S of at most n elements
RECURSIVE SeqsUpTo(_, _)
SeqsUpTo(S, n) ==
    IF n = 0 THEN {<<>>}
    ELSE LET shorter == SeqsUpTo(S, n - 1)
         IN  shorter \cup {Append(s, x) : s \in shorter, x \in S}

\* the keys the service lists under the prefixes ps
RECURSIVE ResolvedKeys(_)
ResolvedKeys(ps) ==
    IF ps = <<>> THEN <<>>
    ELSE Names(Listing(Head(ps), None), "Contents") \o ResolvedKeys(Tail(ps))

Init ==
    /\ pc = "idle"
    /\ call = [op |-> "none"]
    /\ batch = "none"
    /\ items = <<>>
    /\ clients = <<>>
    /\ units = <<>>
    /\ pool = [size |-> 0, threads |-> 0, idle |-> 0, queue |-> <<>>]
    /\ ac = [started |-> FALSE, finished |-> {}, waiter |-> <<>>, yielded |-> <<>>,
             set_order |-> <<>>]
    /\ acc = <<>>
    /\ exc = "none"
    /\ resolved = Pending
    /\ outcome = NoOutcome
    /\ fs = InitFs
    /\ closedUse = FALSE
    /\ pool_n = 0
    /\ pool_st = [pc |-> "off"]

(***************************************************************************)
(* Entering and leaving a batch function.                                  *)
(***************************************************************************)
\* create_s3_client() returned: the try block starts (lines 124-128, 195-200);
\* cs are the clients created before
StartBatch(b, its, cs) ==
    /\ pc' = "submit"
    /\ batch' = b
    /\ items' = its
    /\ clients' = Append(cs, [state |-> "open", closes |-> 0])
    /\ units' = [i \in 1..Len(its) |-> NewUnit(its[i], Len(cs) + 1)]
    /\ pool' = [size |-> PoolSize(Len(its)), threads |-> 0, idle |-> 0, queue |-> <<>>]
    /\ ac' = [started |-> FALSE, finished |-> {}, waiter |-> <<>>, yielded |-> <<>>,
              set_order |-> <<>>]
    /\ acc' = <<>>
    /\ exc' = "none"
    /\ outcome' = outcome

\* the top-level call ends
Exit(out, cs) ==
    /\ pc' = "done"
    /\ outcome' = out
    /\ clients' = cs
    /\ UNCHANGED <<batch, items, units, pool, ac, acc, exc>>

\* download_by_keys up to its try block (lines 194-195): len(None) raises, an
\* empty list falls through to the implicit return, create_s3_client may raise
download_by_keys(keys, cs) ==
    IF keys.type /= "list" THEN Exit(Raises("TypeError"), cs)
    ELSE IF Len(keys.v) > 0
         THEN \/ StartBatch("download_by_keys", keys.v, cs)
              \/ Exit(Raises("ClientError"), cs)
    ELSE Exit(Returns(None), cs)

RECURSIVE Dedup(_)
\* s without its repeated elements
Dedup(s) ==
    IF s = <<>> THEN <<>>
    ELSE LET rest == Dedup(SubSeq(s, 1, Len(s) - 1))
         IN  IF s[Len(s)] \in Range(rest) THEN rest ELSE Append(rest, s[Len(s)])

\* a download_by_prefixes that downloads each listed key once
AfterListingDedup(op, value, cs) ==
    /\ resolved' = IF op = "download_by_prefixes" THEN value ELSE resolved
    /\ IF op = "download_by_prefixes"
       THEN download_by_keys(IF value.type = "list" THEN List(Dedup(value.v)) ELSE value, cs)
       ELSE Exit(Returns(value), cs)

\* what follows the return of a listing batch function in its caller: the end of
\* the call, or lines 230-231 of download_by_prefixes
AfterListing(op, value, cs) ==
    /\ resolved' = IF op = "download_by_prefixes" THEN value ELSE resolved
    /\ IF op = "download_by_prefixes"
       THEN download_by_keys(value, cs)
       ELSE Exit(Returns(value), cs)

\* list_keys_by_prefixes / list_prefixes_by_prefixes up to the try block
\* (lines 68-69, 123-124)
list_by_prefixes(op, b, prefixes, cs) ==
    IF Len(prefixes) > 0
    THEN \/ StartBatch(b, prefixes, cs) /\ UNCHANGED resolved
         \/ Exit(Raises("ClientError"), cs) /\ UNCHANGED resolved
    ELSE AfterListing(op, None, cs)

\* the arguments a caller may pass
Calls ==
    {[op |-> o, items |-> ps, output_format |-> "dict", output_dir |-> Omitted] :
        o \in ListBatches, ps \in SeqsUpTo(Prefixes, MaxItems)}
    \cup
    {[op |-> "download_by_keys", items |-> ks, output_format |-> c[1],
      output_dir |-> c[2]] : ks \in SeqsUpTo(DownloadKeys, MaxItems), c \in Configs}
    \cup
    {[op |-> "download_by_prefixes", items |-> ps, output_format |-> c[1],
      output_dir |-> c[2]] :
        ps \in {q \in SeqsUpTo(Prefixes, MaxItems) : Len(ResolvedKeys(q)) <= MaxItems},
        c \in Configs}

\* a caller calls one of the four batch operations
Call ==
    /\ pc = "idle"
    /\ \E c \in Calls :
        /\ call' = c
        /\ IF c.op = "download_by_keys"
           THEN download_by_keys(List(c.items), clients) /\ UNCHANGED resolved
           ELSE list_by_prefixes(c.op, IF c.op = "download_by_prefixes"
                                       THEN "list_keys_by_prefixes" ELSE c.op,
                                 c.items, clients)
    /\ UNCHANGED <<fs, closedUse, poolModelVars>>

(***************************************************************************)
(* The calling thread inside the try block: submit, as_completed, the      *)
(* aggregation loop, the executor's exit, the finally clause.              *)
(***************************************************************************)
\* executor.submit(func, item), one item of the list comprehension (lines 76, 131, 203)
Submit ==
    /\ pc = "submit"
    /\ LET i   == Cardinality({u \in DOMAIN units : units[u].pc /= "new"}) + 1
           adj == AdjustThreadCount(pool.threads, pool.idle, pool.size)
       IN  /\ units' = [units EXCEPT ![i].pc = "queued"]
           /\ pool' = [pool EXCEPT !.queue = Append(@, i),
                                   !.threads = adj.threads, !.idle = adj.idle]
           /\ pc' = IF i = Len(items) THEN "as_completed" ELSE "submit"
    /\ UNCHANGED <<call, batch, items, clients, ac, acc, exc, resolved, outcome, fs,
                   closedUse, poolModelVars>>

\* as_completed(jobs) at the loop's first step: the jobs already finished are
\* yielded first, the others as they finish
AsCompleted ==
    /\ pc = "as_completed"
    /\ ac' = [ac EXCEPT !.started = TRUE, !.finished = Done]
    /\ pc' = "collect"
    /\ UNCHANGED <<call, batch, items, clients, units, pool, acc, exc, resolved, outcome,
                   fs, closedUse, poolModelVars>>

\* an aggregation that assigns the unit's list instead of extending with it
ExtendAssign(a, r) ==
    IF r.type = "list" THEN [ok |-> TRUE, acc |-> r.v]
    ELSE [ok |-> FALSE, error |-> "TypeError"]

\* keys.extend(r) / sub_level_prefixes.extend(r) (lines 79, 134): r must be iterable
Extend(a, r) ==
    IF r.type = "list" THEN [ok |-> TRUE, acc |-> a \o r.v]
    ELSE [ok |-> FALSE, error |-> "TypeError"]

RECURSIVE PutAll(_, _, _)
\* f with the entries of the dict d added, one key of ks after the other
PutAll(f, d, ks) ==
    IF ks = {} THEN f
    ELSE LET k == CHOOSE x \in ks : TRUE
         IN  PutAll(Put(f, k, d[k]), d, ks \ {k})

\* data.update(r) (line 206): dict.update(None) raises TypeError
Update(a, r) ==
    IF r.type = "dict" THEN [ok |-> TRUE, acc |-> PutAll(a, r.v, DOMAIN r.v)]
    ELSE [ok |-> FALSE, error |-> "TypeError"]

\* the body of the aggregation loop on the value job.result() returns
Aggregate(b, a, r) == IF b = "download_by_keys" THEN Update(a, r) ELSE Extend(a, r)

\* a loop over jobs instead of as_completed(jobs): job.result() blocks on the
\* jobs in the order of submission
YieldInSubmissionOrder(u) == u = Len(ac.yielded) + 1 /\ units[u].pc = "done"

\* the job as_completed may yield next: any of those finished when it started,
\* then the others in the order they finished
MayYield(u) ==
    \/ u \in ac.finished
    \/ ac.finished = {} /\ ac.waiter /= <<>> /\ u = Head(ac.waiter)

\* one turn of `for job in jobs_iter`: job.result() re-raises what the unit raised
Collect(u) ==
    /\ pc = "collect"
    /\ MayYield(u)
    /\ ac' = [ac EXCEPT !.finished = @ \ {u},
                        !.waiter = IF u \in ac.finished THEN @ ELSE Tail(@),
                        !.yielded = Append(@, u)]
    /\ LET r   == units[u].result
           agg == Aggregate(batch, acc, r)
       IN  IF r.type = "raised"
           THEN exc' = r.error /\ acc' = acc /\ pc' = "shutdown"
           ELSE IF ~agg.ok
           THEN exc' = agg.error /\ acc' = acc /\ pc' = "shutdown"
           ELSE /\ exc' = exc
                /\ acc' = agg.acc
                /\ pc' = IF Len(ac.yielded) + 1 = Len(items) THEN "shutdown" ELSE "collect"
    /\ UNCHANGED <<call, batch, items, clients, units, pool, resolved, outcome, fs,
                   closedUse, poolModelVars>>

\* the with block's exit, executor.shutdown(wait=True): every submitted job has run
Shutdown ==
    /\ pc = "shutdown"
    /\ AllDone
    /\ pc' = "finally"
    /\ UNCHANGED <<call, batch, items, clients, units, pool, ac, acc, exc, resolved,
                   outcome, fs, closedUse, poolModelVars>>

\* client.close() (lines 81, 136, 208)
Close(cs) == [cs EXCEPT ![Len(cs)] = [state |-> "closed", closes |-> @.closes + 1]]

\* the finally clause, then the return of the batch function or the exception
Finally ==
    /\ pc = "finally"
    /\ LET closed == Close(clients)
       IN  IF exc /= "none"
           THEN Exit(Raises(exc), closed) /\ UNCHANGED resolved
           ELSE IF batch = "download_by_keys"
           THEN Exit(Returns(Dict(acc)), closed) /\ UNCHANGED resolved
           ELSE AfterListing(call.op, List(acc), closed)
    /\ UNCHANGED <<call, fs, closedUse, poolModelVars>>

(***************************************************************************)
(* The worker threads: a unit is taken from the queue and runs func(item). *)
(***************************************************************************)
\* a worker thread takes the next job off the queue (ThreadPoolExecutor's _worker)
Start(u) ==
    /\ pool.queue /= <<>>
    /\ u = Head(pool.queue)
    /\ Cardinality(Running) < pool.threads
    /\ pool' = [pool EXCEPT !.queue = Tail(@)]
    /\ units' = [units EXCEPT ![u].pc = IF batch \in ListBatches THEN "list_first"
                                       ELSE "fetch"]
    /\ UNCHANGED <<pc, call, batch, items, clients, ac, acc, exc, resolved, outcome, fs,
                   closedUse, poolModelVars>>

\* func returned r (or raised): the future is set, as_completed is notified, the
\* worker thread becomes idle
Finish(u, r, why, called) ==
    /\ units' = [units EXCEPT ![u].pc = "done", ![u].result = r, ![u].failed = why,
                              ![u].calls = called]
    /\ pool' = [pool EXCEPT !.idle = @ + 1]
    /\ ac' = [ac EXCEPT !.waiter = IF ac.started THEN Append(@, u) ELSE @,
                        !.set_order = Append(@, u)]

\* a remote call on the unit's client: noted when that client is closed
Remote(u) == closedUse' = (closedUse \/ clients[units[u].client].state = "closed")

\* a listing without Delimiter on any of its calls
NoDelimiter(b) == None

\* the Delimiter argument of the batch's listing calls (lines 43, 47; none at 99, 103)
Delimiter(b) == IF b = "list_prefixes_by_prefixes" THEN Str(<<Slash>>) ELSE None

\* the keyword arguments of one list_objects_v2 call, Bucket and Prefix apart
\* (lines 43, 47-48; 99, 103): None stands for an argument that is not passed
ListCall(delimiter, tok) == [Delimiter |-> delimiter, ContinuationToken |-> tok]

\* what the batch's unit collects of a response (lines 44, 49; 100, 104)
Collected(b, resp) ==
    IF b = "list_prefixes_by_prefixes" THEN resp.CommonPrefixes ELSE resp.Contents

\* a listing unit without its except clause
list_reraise(err) == Raised(err)

\* an except clause that ends in a bare return, as download_by_key's does
list_except_none(err) == None

\* the except clause of list_keys_by_prefix / list_prefixes_by_prefix (lines 51-53,
\* 106-108): any Exception gives the empty list
list_except(err) == List(<<>>)

\* a loop that keeps the token of the first response instead of the latest one
NextTokenStale(resp) ==
    IF resp.NextContinuationToken = None THEN None ELSE Token(PageSize + 1)

\* the ContinuationToken the next call of the loop carries (lines 46-48, 102-103)
NextToken(resp) == resp.NextContinuationToken

\* after a response: the loop goes on while the response carries a token
AfterPage(u, resp, got, called) ==
    IF Truthy(NextToken(resp))
    THEN /\ units' = [units EXCEPT ![u].pc = "list_next", ![u].token = NextToken(resp),
                                   ![u].local = got, ![u].calls = called]
         /\ UNCHANGED <<pool, ac>>
    ELSE Finish(u, List(got), "none", called)

\* the first list_objects_v2 call of a unit and what follows it (lines 43-44, 99-100)
ListFirst(u) ==
    /\ units[u].pc = "list_first"
    /\ Remote(u)
    /\ LET called == Append(units[u].calls, ListCall(Delimiter(batch), None))
           resp   == list_objects_v2(units[u].item, Delimiter(batch), None)
       IN  \/ AfterPage(u, resp, Collected(batch, resp), called)
           \/ Finish(u, list_except("ListingError"), "list", called)
    /\ UNCHANGED <<pc, call, batch, items, clients, acc, exc, resolved, outcome, fs,
                   poolModelVars>>

\* a continuation call of the while loop and what follows it (lines 46-49, 102-104)
ListNext(u) ==
    /\ units[u].pc = "list_next"
    /\ Remote(u)
    /\ LET called == Append(units[u].calls, ListCall(Delimiter(batch), units[u].token))
           resp   == list_objects_v2(units[u].item, Delimiter(batch), units[u].token)
       IN  \/ AfterPage(u, resp, units[u].local \o Collected(batch, resp), called)
           \/ Finish(u, list_except("ListingError"), "list", called)
    /\ UNCHANGED <<pc, call, batch, items, clients, acc, exc, resolved, outcome, fs,
                   poolModelVars>>

\* an except clause that catches the errors of the remote call alone
except_fetch_only(err) == IF err = "FetchError" THEN None ELSE Raised(err)

\* the except clause of download_by_key (lines 173-175): any Exception is printed
\* and the function returns None
download_by_key_except(err) == None

\* the dict {key: value}
Single(key, value) == [k \in {key} |-> value]

\* a write that does not depend on output_format
PersistAnyFormat(output_format, output_dir) == output_dir /= None

\* lines 165-166: the bytes are written when output_format is 'bytes' and
\* output_dir is not None
ShouldPersist(output_format, output_dir) == output_format = "bytes" /\ output_dir /= None

\* what download_by_key returns once the bytes are read, disk apart (lines 163-172)
Payload(output_format, key, data) ==
    IF output_format = "dict"
    THEN IF JsonLoads(data).ok
         THEN [result |-> Dict(Single(key, JsonLoads(data).value)), failed |-> "none"]
         ELSE [result |-> download_by_key_except("ParseError"), failed |-> "parse"]
    ELSE IF output_format = "bytes"
    THEN [result |-> Dict(Single(key, data)), failed |-> "none"]
    ELSE [result |-> download_by_key_except("ValueError"), failed |-> "format"]

\* os.path.join(output_dir, os.path.dirname(key)), the directory made (line 167)
TargetDir(output_dir, key) == join(output_dir.v, dirname(key))

\* os.path.join(output_dir, key), the file written (line 168)
TargetPath(output_dir, key) == join(output_dir.v, key)

\* client.download_fileobj and what follows it up to the write (lines 160-166)
Fetch(u) ==
    /\ units[u].pc = "fetch"
    /\ Remote(u)
    /\ LET key    == units[u].item
           data   == Body(key)
           called == Append(units[u].calls, Str(key))
           pay    == Payload(call.output_format, key, data)
       IN  \/ IF ShouldPersist(call.output_format, OutputDir(call))
              THEN /\ units' = [units EXCEPT ![u].pc = "makedirs", ![u].data = data,
                                             ![u].calls = called]
                   /\ UNCHANGED <<pool, ac>>
              ELSE Finish(u, pay.result, pay.failed, called)
           \/ Finish(u, download_by_key_except("FetchError"), "fetch", called)
    /\ UNCHANGED <<pc, call, batch, items, clients, acc, exc, resolved, outcome, fs,
                   poolModelVars>>

\* os.makedirs(..., exist_ok=True) (line 167); it may fail like any system call
Mkdirs(u) ==
    /\ units[u].pc = "makedirs"
    /\ LET name == TargetDir(OutputDir(call), units[u].item)
       IN  \/ /\ ~MakedirsFails(fs, name)
              /\ fs' = Makedirs(fs, name)
              /\ units' = [units EXCEPT ![u].pc = "open"]
              /\ UNCHANGED <<pool, ac>>
           \/ /\ fs' = fs
              /\ Finish(u, download_by_key_except("PersistError"), "makedirs",
                        units[u].calls)
    /\ UNCHANGED <<pc, call, batch, items, clients, acc, exc, resolved, outcome,
                   closedUse, poolModelVars>>

\* open(..., 'wb') (line 168): the file is created or truncated
Open(u) ==
    /\ units[u].pc = "open"
    /\ LET path == TargetPath(OutputDir(call), units[u].item)
       IN  \/ /\ ~OpenFails(fs, path)
              /\ fs' = OpenWb(fs, path)
              /\ units' = [units EXCEPT ![u].pc = "write"]
              /\ UNCHANGED <<pool, ac>>
           \/ /\ fs' = fs
              /\ Finish(u, download_by_key_except("PersistError"), "open",
                        units[u].calls)
    /\ UNCHANGED <<pc, call, batch, items, clients, acc, exc, resolved, outcome,
                   closedUse, poolModelVars>>

\* f.write(data), the close of the file and the return (lines 169-170)
Write(u) ==
    /\ units[u].pc = "write"
    /\ LET key  == units[u].item
           path == TargetPath(OutputDir(call), key)
       IN  \/ /\ fs' = WriteAll(fs, path, units[u].data)
              /\ Finish(u, Dict(Single(key, units[u].data)), "none", units[u].calls)
           \/ /\ fs' = fs
              /\ Finish(u, download_by_key_except("PersistError"), "write",
                        units[u].calls)
    /\ UNCHANGED <<pc, call, batch, items, clients, acc, exc, resolved, outcome,
                   closedUse, poolModelVars>>

Next ==
    \/ Call
    \/ Submit
    \/ AsCompleted
    \/ \E u \in DOMAIN units : Collect(u)
    \/ Shutdown
    \/ Finally
    \/ \E u \in DOMAIN units : Start(u)
    \/ \E u \in DOMAIN units : ListFirst(u)
    \/ \E u \in DOMAIN units : ListNext(u)
    \/ \E u \in DOMAIN units : Fetch(u)
    \/ \E u \in DOMAIN units : Mkdirs(u)
    \/ \E u \in DOMAIN units : Open(u)
    \/ \E u \in DOMAIN units : Write(u)

Spec == Init /\ [][Next]_vars

\* the steps of the calling thread once it is inside a batch function
CallerStep ==
    \/ Submit
    \/ AsCompleted
    \/ \E u \in DOMAIN units : Collect(u)
    \/ Shutdown
    \/ Finally

\* the steps of the worker thread that executes the unit u: taking it off the
\* queue, its remote calls (each returns or fails) and its system calls
UnitStep(u) ==
    /\ u \in DOMAIN units
    /\ \/ Start(u)
       \/ ListFirst(u)
       \/ ListNext(u)
       \/ Fetch(u)
       \/ Mkdirs(u)
       \/ Open(u)
       \/ Write(u)

\* the same program with its threads scheduled: the calling thread and every worker
\* thread take their next step when it stays possible, and a remote call that was
\* issued returns or fails
FairSpec ==
    /\ Spec
    /\ WF_vars(CallerStep)
    /\ \A u \in 1..MaxItems : WF_vars(UnitStep(u))

(***************************************************************************)
(* The worker pool of a batch of up to MaxBatch items, its units counted   *)
(* instead of told apart: the same submit, _adjust_thread_count and worker *)
(* loop as above, for batches larger than max_workers.                     *)
(***************************************************************************)
\* a batch operation is called with n items (n >= 1: the pool is made at all)
PoolCall ==
    /\ pool_st.pc = "off"
    /\ \E n \in 1..MaxBatch :
        /\ pool_n' = n
        /\ pool_st' = [pc |-> "submit", size |-> PoolSize(n), submitted |-> 0,
                       queued |-> 0, threads |-> 0, idle |-> 0, running |-> 0,
                       done |-> 0]
    /\ UNCHANGED <<pc, call, batchVars, resolved, outcome, fs, closedUse>>

\* executor.submit(func, item)
PoolSubmit ==
    /\ pool_st.pc = "submit"
    /\ LET adj == AdjustThreadCount(pool_st.threads, pool_st.idle, pool_st.size)
       IN  pool_st' = [pool_st EXCEPT
                         !.submitted = @ + 1, !.queued = @ + 1,
                         !.threads = adj.threads, !.idle = adj.idle,
                         !.pc = IF pool_st.submitted + 1 = pool_n THEN "wait" ELSE "submit"]
    /\ UNCHANGED <<pc, call, batchVars, resolved, outcome, fs, closedUse, pool_n>>

\* a worker thread that is not executing a unit takes one off the queue
PoolStart ==
    /\ pool_st.pc \in {"submit", "wait"}
    /\ pool_st.queued > 0
    /\ pool_st.running < pool_st.threads
    /\ pool_st' = [pool_st EXCEPT !.queued = @ - 1, !.running = @ + 1]
    /\ UNCHANGED <<pc, call, batchVars, resolved, outcome, fs, closedUse, pool_n>>

\* a unit returns: its worker thread is idle again
PoolFinish ==
    /\ pool_st.pc \in {"submit", "wait"}
    /\ pool_st.running > 0
    /\ pool_st' = [pool_st EXCEPT !.running = @ - 1, !.done = @ + 1, !.idle = @ + 1]
    /\ UNCHANGED <<pc, call, batchVars, resolved, outcome, fs, closedUse, pool_n>>

\* the with block's exit: shutdown(wait=True) returns once every unit has run
PoolShutdown ==
    /\ pool_st.pc = "wait"
    /\ pool_st.done = pool_n
    /\ pool_st' = [pool_st EXCEPT !.pc = "shut"]
    /\ UNCHANGED <<pc, call, batchVars, resolved, outcome, fs, closedUse, pool_n>>

PoolNext == PoolCall \/ PoolSubmit \/ PoolStart \/ PoolFinish \/ PoolShutdown

PoolSpec == Init /\ [][PoolNext]_vars

(***************************************************************************)
(* The claims.                                                             *)
(***************************************************************************)
\* the units of the batch that have finished and whose except clause did not run
Succeeded == {u \in Done : units[u].failed = "none"}
Failed == {u \in Done : units[u].failed /= "none"}

\* the entries download_by_keys owes its caller: one per key of a unit that returned a dict
OwedData ==
    LET ok == {u \in Succeeded : units[u].result.type = "dict"}
    IN  [k \in {units[u].item : u \in ok} |->
            LET u == CHOOSE x \in ok : units[x].item = k IN units[u].result.v[k]]

\* C1 (as claimed): when download_by_keys has ended on a non-empty list of keys of
\* which some unit failed on a fetch, parse or persist error, it returned, raising
\* nothing, the mapping that holds exactly the entries of the units that succeeded.
C1_FailureIsolation ==
    (/\ pc = "done"
     /\ call.op = "download_by_keys"
     /\ batch = "download_by_keys"
     /\ \E u \in Failed : units[u].failed \in {"fetch", "parse", "makedirs", "open", "write"})
    => /\ outcome.kind = "returned"
       /\ outcome.value = Dict(OwedData)

\* the pages the service holds for a listing: P1..Pk, k >= 1
NumPages(prefix, delimiter) ==
    LET n == Len(Listing(prefix, delimiter))
    IN  IF n = 0 THEN 1 ELSE (n + PageSize - 1) \div PageSize

ServicePage(prefix, delimiter, i) ==
    LET all == Listing(prefix, delimiter)
    IN  SubSeq(all, (i - 1) * PageSize + 1, Min(i * PageSize, Len(all)))

\* the items of the batch's kind on pages 1..n of a prefix, in page order
ItemsOfPages(b, prefix, n) ==
    Concat([i \in 1..n |->
              Names(ServicePage(prefix, Delimiter(b), i),
                    IF b = "list_prefixes_by_prefixes" THEN "CommonPrefixes" ELSE "Contents")])

\* C2: a listing unit whose calls all succeed issues exactly k calls for the k pages
\* the service holds, the first without a token and call N+1 with the token call N
\* returned, and it returns the items of P1..Pk in page order; while it runs it has
\* issued at most k calls and holds the items of the pages received so far.
C2_PaginationComplete ==
    batch \in ListBatches =>
      \A u \in DOMAIN units :
        LET unit   == units[u]
            k      == NumPages(unit.item, Delimiter(batch))
            n      == Len(unit.calls)
            resp(j) == list_objects_v2(unit.item, Delimiter(batch),
                                       unit.calls[j].ContinuationToken)
        IN  /\ n <= k
            /\ n >= 1 => unit.calls[1].ContinuationToken = None
            /\ \A j \in 1..(n - 1) :
                 unit.calls[j + 1].ContinuationToken = resp(j).NextContinuationToken
            /\ unit.pc = "list_next" =>
                 /\ unit.token = resp(n).NextContinuationToken
                 /\ unit.local = ItemsOfPages(batch, unit.item, n)
            /\ (unit.pc = "done" /\ unit.failed = "none") =>
                 /\ n = k
                 /\ unit.result = List(ItemsOfPages(batch, unit.item, k))

\* C2's case: a unit that drained a listing of three pages or more
C2_Witness ==
    /\ batch \in ListBatches
    /\ \E u \in Succeeded : Len(units[u].calls) >= 3 /\ Len(units[u].result.v) >= 3

\* C3: the pool of a batch of n >= 1 items is sized min(16, n), and never more than
\* min(16, n) worker threads exist or units execute at once.
C3_BoundedConcurrency ==
    pool_st.pc /= "off" =>
        /\ pool_st.size = Min(max_workers, pool_n)
        /\ pool_st.threads <= Min(max_workers, pool_n)
        /\ pool_st.running <= Min(max_workers, pool_n)

\* C3's case: more than 16 items, 16 of them in flight and others waiting
C3_Witness ==
    /\ pool_st.pc /= "off"
    /\ pool_n > max_workers
    /\ pool_st.running = max_workers
    /\ pool_st.queued > 0

\* C4: the client of a batch exists before any unit does and every unit uses it; it
\* stays open while the calling thread is inside the try block, is closed once and
\* only when every unit has finished, and is closed when the call has ended, also
\* when it ended with an exception; no remote call is issued on a closed client.
C4_ClientLifecycle ==
    /\ ~closedUse
    /\ \A i \in DOMAIN clients :
        /\ clients[i].closes <= 1
        /\ (clients[i].state = "closed") <=> (clients[i].closes = 1)
        /\ i < Len(clients) => clients[i].state = "closed"
    /\ batch /= "none" =>
        /\ clients /= <<>>
        /\ \A u \in DOMAIN units : units[u].client = Len(clients)
        /\ pc \in {"submit", "as_completed", "collect", "shutdown", "finally"} =>
             clients[Len(clients)].state = "open"
        /\ clients[Len(clients)].state = "closed" =>
             \A u \in DOMAIN units : units[u].pc = "done"
        /\ pc = "done" => clients[Len(clients)].closes = 1

\* C4's case: the aggregation raised after a unit failed, and the client was closed
C4_Witness ==
    /\ pc = "done"
    /\ batch = "download_by_keys"
    /\ outcome = Raises("TypeError")
    /\ Failed /= {}
    /\ clients[Len(clients)] = [state |-> "closed", closes |-> 1]

\* every item of the batch's kind the service lists under a prefix
AllItems(b, prefix) == ItemsOfPages(b, prefix, NumPages(prefix, Delimiter(b)))

\* C5: a listing batch over a non-empty list of prefixes returns, raising nothing,
\* the items of the prefixes whose listing succeeded, prefix by prefix in the order
\* the units were collected; a prefix whose listing failed contributes nothing.
C5_ListingIsolation ==
    (pc = "done" /\ call.op \in ListBatches /\ batch \in ListBatches) =>
        /\ Len(ac.yielded) = Len(items)
        /\ outcome =
             Returns(List(Concat([i \in 1..Len(ac.yielded) |->
                 LET unit == units[ac.yielded[i]]
                 IN  IF unit.failed = "none" THEN AllItems(batch, unit.item) ELSE <<>>])))

\* C5's case: one prefix failed and the batch returned the items of another
C5_Witness ==
    /\ pc = "done"
    /\ call.op \in ListBatches
    /\ batch \in ListBatches
    /\ Failed /= {}
    /\ outcome.kind = "returned"
    /\ outcome.value.v /= <<>>

\* C6: under a valid output_format, download_by_key raises nothing: a fetch, parse
\* or persist error makes it return None, whichever of them it was, and without an
\* error it returns a dict.
C6_UnitDegradation ==
    (batch = "download_by_keys" /\ call.output_format \in {"dict", "bytes"}) =>
        \A u \in Done :
            /\ units[u].result.type /= "raised"
            /\ units[u].failed /= "none" => units[u].result = None
            /\ units[u].failed = "none" => units[u].result.type = "dict"

\* C6's case: one unit failed on the fetch, another on the write, both returned None
C6_Witness ==
    /\ batch = "download_by_keys"
    /\ \E u, w \in Done :
        /\ units[u].failed = "fetch"
        /\ units[w].failed = "write"
        /\ units[u].result = units[w].result

\* C7 (as claimed): under an output_format that is neither 'dict' nor 'bytes' the
\* ValueError leaves download_by_key instead of becoming an absent result, and
\* download_by_keys ends raising it.
C7_InvalidFormatFatal ==
    (batch = "download_by_keys" /\ call.output_format \notin {"dict", "bytes"}) =>
        /\ \A u \in Done :
             units[u].failed = "format" => units[u].result = Raised("ValueError")
        /\ (pc = "done" /\ \E u \in Done : units[u].failed = "format") =>
             outcome = Raises("ValueError")

\* C8: download_by_prefixes downloads the very list list_keys_by_prefixes returned,
\* one unit and one fetch per occurrence of a key, and the mapping it returns holds
\* one entry per distinct key fetched.
C8_Composition ==
    call.op = "download_by_prefixes" =>
        /\ batch = "download_by_keys" =>
             /\ resolved = List(items)
             /\ \A u \in DOMAIN units :
                  /\ units[u].item = items[u]
                  /\ Len(units[u].calls) <= 1
                  /\ units[u].pc = "done" => units[u].calls = <<Str(items[u])>>
        /\ (pc = "done" /\ outcome.kind = "returned" /\ outcome.value.type = "dict") =>
             /\ batch = "download_by_keys"
             /\ outcome.value = Dict(OwedData)
             /\ DOMAIN outcome.value.v = {units[u].item : u \in Succeeded}

\* C8's case: a key listed under two prefixes, fetched twice, one entry returned
C8_Witness ==
    /\ call.op = "download_by_prefixes"
    /\ pc = "done"
    /\ outcome.kind = "returned"
    /\ outcome.value.type = "dict"
    /\ \E u, w \in Done : u /= w /\ units[u].item = units[w].item
    /\ Cardinality(DOMAIN outcome.value.v) < Len(items)

\* C9 (as claimed): the filesystem changes only when an output directory is passed,
\* output_format is 'bytes' and a fetch succeeded; passing None or no output_dir
\* at all leaves it unchanged.
C9_NoWriteWhenAbsent ==
    fs /= InitFs =>
        /\ call.output_dir \notin {None, Omitted}
        /\ call.output_format = "bytes"
        /\ \E u \in DOMAIN units : units[u].data = Body(units[u].item)

\* C9 (amended): the filesystem changes only when output_format is 'bytes', the
\* output_dir parameter is not None (the default '' when it is not passed) and a
\* fetch succeeded.
C9_WriteOnlyWhenConfigured ==
    fs /= InitFs =>
        /\ batch = "download_by_keys"
        /\ call.output_format = "bytes"
        /\ OutputDir(call) /= None
        /\ \E u \in DOMAIN units : units[u].data = Body(units[u].item)

\* C9's case: no output_dir passed, and a file was written under the working directory
C9_Witness ==
    /\ call.op /= "none"
    /\ call.output_dir = Omitted
    /\ \E loc \in DOMAIN fs.files : ~loc.abs /\ fs.files[loc] /= NoBytes

\* the place output_dir/key names: the key's path below the output directory
ExpectedLoc(output_dir, key) ==
    LET d == Resolve(output_dir.v)
    IN  [abs |-> d.abs, comps |-> d.comps \o Split(key, <<>>)]

\* C10 (as claimed): whenever download_by_key returns {key: payload} under 'bytes'
\* with an output directory passed, the file output_dir/key exists below the
\* directories of the key's path and holds the payload, whatever the shape of the key.
C10_PersistRoundTrip ==
    [][(/\ pc \notin {"idle", "finally"}
        /\ batch = "download_by_keys"
        /\ call.output_format = "bytes"
        /\ call.output_dir.type = "str")
       => \A u \in DOMAIN units :
            (units[u].pc /= "done" /\ units'[u].pc = "done"
             /\ units'[u].result.type = "dict")
            => LET key == units[u].item
                   loc == ExpectedLoc(OutputDir(call), key)
               IN  /\ loc \in DOMAIN fs'.files
                   /\ fs'.files[loc] = units'[u].result.v[key]
                   /\ Ancestors(Parent(loc)) \subseteq fs'.dirs]_vars

\* how many times the unit u was handed to the aggregation loop
TimesYielded(u) == Cardinality({i \in DOMAIN ac.yielded : ac.yielded[i] = u})

\* C11 (as claimed): in a batch there is exactly one unit per submitted item, the
\* batch function is left only when every unit has finished, and by then the result
\* of every unit was aggregated exactly once: none twice, none dropped.
C11_ExactlyOnceCapture ==
    batch /= "none" =>
        /\ Len(units) = Len(items)
        /\ \A u \in DOMAIN units : units[u].item = items[u] /\ TimesYielded(u) <= 1
        /\ \A u \in DOMAIN units : TimesYielded(u) = 1 => units[u].pc = "done"
        /\ pc = "done" => \A u \in DOMAIN units :
                            units[u].pc = "done" /\ TimesYielded(u) = 1

\* a listing batch has returned to the caller and no listing call failed in it
ListingReturned ==
    /\ pc = "done"
    /\ call.op \in ListBatches
    /\ batch \in ListBatches
    /\ outcome.kind = "returned"
    /\ Failed = {}

\* the per-prefix item lists of the batch, concatenated in the order ord of the units
Blocks(ord) == Concat([i \in DOMAIN ord |-> AllItems(batch, items[ord[i]])])

\* the input order of the units, and every order of them
InputOrder == [i \in DOMAIN items |-> i]
Orders == {f \in [DOMAIN items -> DOMAIN items] : \A i, j \in DOMAIN items : f[i] = f[j] => i = j}

\* C12 (as claimed): the sequence a listing batch returns is fixed by the input
\* prefixes and the bucket alone, whatever the interleaving of the units: it is the
\* per-prefix lists in the order of the input.
C12_DeterministicOrder ==
    ListingReturned => outcome.value = List(Blocks(InputOrder))

\* C12 (amended): the sequence a listing batch returns is the per-prefix lists, one
\* contiguous block per input prefix, in some order of the prefixes; input and bucket
\* fix the blocks, not their order.
C12_BlocksInSomeOrder ==
    ListingReturned => \E ord \in Orders : outcome.value = List(Blocks(ord))

\* C12's case: two prefixes listed, and the block of the second returned first
C12_Witness ==
    /\ ListingReturned
    /\ Len(items) = 2
    /\ outcome.value = List(Blocks(<<2, 1>>))
    /\ outcome.value /= List(Blocks(InputOrder))

\* C13: a listing unit whose call j failed, j - 1 pages received, has issued those j
\* calls and no more than the service has pages, raised nothing and returned the
\* empty list, not the items of the pages it received; once it has returned it
\* issues no further call.
C13_MidPaginationFailure ==
    [][(batch \in ListBatches /\ pc /= "finally") =>
        \A u \in DOMAIN units :
            /\ (units'[u].pc = "done" /\ units'[u].failed = "list") =>
                 /\ units'[u].result = List(<<>>)
                 /\ Len(units'[u].calls) <= NumPages(units[u].item, Delimiter(batch))
                 /\ units[u].pc = "done" => units'[u] = units[u]
            /\ (units[u].pc = "list_next" /\ units'[u].pc = "done"
                /\ units'[u].failed = "list") =>
                 /\ Len(units'[u].calls) = Len(units[u].calls) + 1
                 /\ units[u].local = ItemsOfPages(batch, units[u].item, Len(units[u].calls))
                 /\ units[u].local /= <<>> => units'[u].result /= List(units[u].local)]_vars

\* C13's case: a unit that had received two pages with items failed on its third call
C13_Witness ==
    /\ batch \in ListBatches
    /\ \E u \in Failed :
         /\ units[u].failed = "list"
         /\ Len(units[u].calls) = 3
         /\ Len(units[u].local) >= 2
         /\ units[u].result = List(<<>>)

\* the position of the unit u in the sequence s of units
PosIn(s, u) == CHOOSE i \in DOMAIN s : s[i] = u

\* C14 (as claimed): the sequence list_keys_by_prefixes returns is the per-prefix key
\* lists as contiguous blocks, each in page order, the blocks in the order in which
\* the units finished.
C14_CompletionOrdered ==
    (ListingReturned /\ batch = "list_keys_by_prefixes") =>
        outcome.value = List(Blocks(ac.set_order))

\* C14 (amended): the blocks are in the order in which as_completed yields the
\* units: the units that had finished when the aggregation loop started come first,
\* in any order, and the others follow in the order in which they finish; a
\* finished unit never waits for a unit still running, and the multiset of keys
\* returned is that of the per-prefix lists, the same in every interleaving.
C14_YieldOrdered ==
    /\ [](batch = "list_keys_by_prefixes" =>
            /\ (pc = "collect" /\ Done \ Range(ac.yielded) /= {}) =>
                 \E u \in Done \ Range(ac.yielded) : MayYield(u)
            /\ ListingReturned =>
                 /\ outcome.value = List(Blocks(ac.yielded))
                 /\ \A k \in Range(outcome.value.v) \cup Range(Blocks(InputOrder)) :
                      Cardinality({i \in DOMAIN outcome.value.v : outcome.value.v[i] = k})
                      = Cardinality({i \in DOMAIN Blocks(InputOrder) :
                                        Blocks(InputOrder)[i] = k}))
    /\ [][(batch = "list_keys_by_prefixes" /\ pc = "collect"
           /\ Len(ac'.yielded) = Len(ac.yielded) + 1) =>
            LET u == ac'.yielded[Len(ac'.yielded)]
            IN  /\ units[u].pc = "done"
                /\ u \notin Range(ac.yielded)
                /\ \/ u \in ac.finished
                   \/ /\ ac.finished = {}
                      /\ \A w \in Done \ Range(ac.yielded) :
                           PosIn(ac.set_order, u) <= PosIn(ac.set_order, w)]_vars

\* C14's case: the second prefix's unit finished while the first was running, and
\* its keys were aggregated before the first unit finished
C14_Witness ==
    /\ batch = "list_keys_by_prefixes"
    /\ pc = "collect"
    /\ ac.yielded = <<2>>
    /\ acc /= <<>>
    /\ units[1].pc \in RunningPcs

\* the aggregation loop was left on an exception while units were still to run
RaisedEarly(u) == exc /= "none" /\ u \notin Range(ac.yielded)

\* C15: a unit that failed, or an error raised while a result was aggregated,
\* cancels no other unit: when the batch function is left, returning or raising,
\* every submitted unit has run to its end: it issued its remote calls, and where it
\* was to write a file and nothing failed, the file was written.
C15_NoSiblingCancellation ==
    (batch /= "none" /\ pc \in {"finally", "done"}) =>
        \A u \in DOMAIN units :
            /\ units[u].pc = "done"
            /\ units[u].result /= Pending
            /\ Len(units[u].calls) >= 1
            /\ units[u].failed = "none" =>
                 /\ batch \in ListBatches =>
                      Len(units[u].calls) = NumPages(units[u].item, Delimiter(batch))
                 /\ (batch = "download_by_keys"
                     /\ ShouldPersist(call.output_format, OutputDir(call))) =>
                      Resolve(TargetPath(OutputDir(call), units[u].item)) \in DOMAIN fs.files

\* C15's case: the aggregation raised on a failed unit, and a unit the loop never
\* received still fetched its object and wrote its file before the call raised
C15_Witness ==
    /\ pc = "done"
    /\ batch = "download_by_keys"
    /\ outcome = Raises("TypeError")
    /\ ShouldPersist(call.output_format, OutputDir(call))
    /\ \E u \in Succeeded :
         /\ RaisedEarly(u)
         /\ Len(units[u].calls) = 1
         /\ Resolve(TargetPath(OutputDir(call), units[u].item)) \in DOMAIN fs.files

\* the one-level children of a prefix: prefix, a segment without slash, one slash
IsChildPrefix(e, prefix) ==
    /\ HasPrefix(e, prefix)
    /\ Len(e) > Len(prefix)
    /\ FindChar(SubSeq(e, Len(prefix) + 1, Len(e)), Slash) = Len(e) - Len(prefix)

\* C16: every call of a list_prefixes_by_prefix unit, the first and the
\* continuations, passes Delimiter '/', and what the unit holds and returns is the
\* CommonPrefixes of the pages it received, page after page: one-level children of
\* the prefix and no key of a page's Contents.
C16_DelimiterScoped ==
    batch = "list_prefixes_by_prefixes" =>
        \A u \in DOMAIN units :
            LET unit    == units[u]
                n       == Len(unit.calls)
                resp(j) == list_objects_v2(unit.item, Str(<<Slash>>),
                                           unit.calls[j].ContinuationToken)
                got     == Concat([j \in 1..n |-> resp(j).CommonPrefixes])
                held    == IF unit.pc = "done" THEN unit.result.v ELSE unit.local
            IN  /\ \A j \in 1..n : unit.calls[j].Delimiter = Str(<<Slash>>)
                /\ (unit.pc = "list_next" \/ (unit.pc = "done" /\ unit.failed = "none")) =>
                     held = got
                /\ \A i \in DOMAIN held :
                     /\ IsChildPrefix(held[i], unit.item)
                     /\ \A j \in 1..n : held[i] \notin Range(resp(j).Contents)

\* C16's case: a unit listed the whole bucket in three pages, the last of which held
\* the object key 'b', and returned the two child prefixes alone
C16_Witness ==
    /\ batch = "list_prefixes_by_prefixes"
    /\ \E u \in Succeeded :
         /\ units[u].item = P_all
         /\ Len(units[u].calls) = 3
         /\ units[u].result = List(<<<<Slash>>, <<"a", Slash>>>>)
         /\ K_b \in Range(list_objects_v2(P_all, Str(<<Slash>>),
                                          units[u].calls[3].ContinuationToken).Contents)

\* the batch the caller passed is empty, or its prefixes resolved to no key
EmptyBatch ==
    \/ call.items = <<>>
    \/ call.op = "download_by_prefixes" /\ resolved = List(<<>>)

\* C17 (as claimed): whatever a batch operation returns is a sequence (the listing
\* operations) or a mapping (the download operations), and on an empty batch it
\* raises nothing and returns the empty sequence or the empty mapping.
C17_ResultShape ==
    (pc = "done" /\ call.op /= "none") =>
        LET empty == IF call.op \in ListBatches THEN List(<<>>) ELSE Dict(<<>>)
        IN  /\ outcome.kind = "returned" => outcome.value.type = empty.type
            /\ EmptyBatch => outcome = Returns(empty)

\* the units that hold the file at the place loc open for writing
Writers(loc) ==
    {u \in DOMAIN units :
        /\ units[u].pc = "write"
        /\ Resolve(TargetPath(OutputDir(call), units[u].item)) = loc}

\* C18 (as claimed): while a download under 'bytes' with an output directory runs,
\* no local path is being written by more than one unit at a time, also when a key
\* occurs more than once in the list.
C18_SingleWriter ==
    (batch = "download_by_keys" /\ call.output_format = "bytes"
     /\ call.output_dir.type = "str") =>
        \A u \in DOMAIN units :
            units[u].pc = "write" =>
                Writers(Resolve(TargetPath(OutputDir(call), units[u].item))) = {u}

\* the batch's client and every client before it are closed
AllClosed == \A i \in DOMAIN clients : clients[i].state = "closed"

\* C19: with remote calls that return or fail and listings of finitely many pages,
\* a batch operation that was called ends, returning or raising, with its clients
\* closed; and a listing unit leaves its loop only on a call that fails or on a
\* response without a token, going on to the next call whenever a token is there.
C19_Termination ==
    /\ (pc /= "idle") ~> (pc = "done" /\ outcome /= NoOutcome /\ AllClosed)
    /\ [][(batch \in ListBatches /\ pc /= "finally") =>
            \A u \in DOMAIN units :
                Len(units'[u].calls) = Len(units[u].calls) + 1 =>
                    LET sent == units'[u].calls[Len(units'[u].calls)]
                        resp == list_objects_v2(units[u].item, sent.Delimiter,
                                                sent.ContinuationToken)
                    IN  \/ units'[u].pc = "done" /\ units'[u].failed = "list"
                        \/ /\ units'[u].failed = "none"
                           /\ units'[u].pc = "done" <=> resp.NextContinuationToken = None
                           /\ units'[u].pc = "list_next" <=> resp.NextContinuationToken /= None]_vars

\* C19's case: download_by_prefixes has ended, both its batches run and both clients
\* closed, after a listing unit drained three pages or more
C19_Witness ==
    /\ pc = "done"
    /\ call.op = "download_by_prefixes"
    /\ batch = "download_by_keys"
    /\ Len(clients) = 2
    /\ AllClosed
    /\ Len(resolved.v) >= 2

====
